---- MODULE Spec2Model ----
(***************************************************************************)
(* A model of prospector2html.py (class Prospector2HTML): the message      *)
(* filter, the three normalizers, the snippet reader nested in             *)
(* normalize_semgrep, and main.                                            *)
(*                                                                         *)
(* Python values are modelled as follows.                                  *)
(*   str    a sequence of pieces of text, one character per piece wherever *)
(*          the program looks inside the text (<<"a","b">> is 'ab'), so    *)
(*          that len(), `in`, endswith, rstrip, join, split and            *)
(*          html.escape are computed rather than assumed; a literal of the *)
(*          program's own markup is one piece;                             *)
(*   dict   a function whose DOMAIN is the set of keys present;            *)
(*   list   a sequence;                                                    *)
(*   an exception that leaves a function is a value of the form            *)
(*          [exc |-> <class name>] in place of the returned value.         *)
(***************************************************************************)
EXTENDS Integers, Sequences, FiniteSets, TLC

VARIABLES
    pc,                 \* position in main, or the pure function under evaluation
    args,               \* argparse namespace (main, line 158)
    config_file,        \* what open(args.config)/yaml.safe_load meets
    input_file,         \* what json.loads(open(args.input).read()) returns
    fs,                 \* the working tree: path -> file, as open() meets it
    prh_config,         \* Prospector2HTML.prh_config
    msgs,               \* main's msgs (the selected input section)
    deduplicated_msgs,  \* main's deduplicated_msgs
    result,             \* the running normalizer's result list
    idx,                \* number of items the running normalizer has consumed
    filtered_msgs,      \* main's filtered_msgs
    report,             \* the report file on disk, <<>> while not written
    ret_code,           \* what main returned (or the exception that left it)
    x,                  \* argument of filter_message / readSnippet under evaluation
    out                 \* value returned by the function under evaluation

vars == <<pc, args, config_file, input_file, fs, prh_config, msgs, deduplicated_msgs,
          result, idx, filtered_msgs, report, ret_code, x, out>>

---------------------------------------------------------------------------
(* Bounds of the model.                                                    *)

MaxStrLen == 2      \* longest message text / blocklist entry drawn
MaxList == 2        \* longest literal blocklist drawn
MaxMsgs == 3        \* longest input section drawn
MaxFileLines == 13  \* longest source file drawn for readSnippet
MaxLine == 14       \* largest target line drawn for readSnippet

(* Constants of the program.                                               *)

MinifiedLen == 200  \* readSnippet: a longer line marks a minified .js file
WindowLen == 11     \* readSnippet: lines[line_n:line_n+11]
LeadLines == 5      \* readSnippet: line-5 if line > 5

---------------------------------------------------------------------------
(* Python built-ins.                                                       *)

Min(a, b) == IF a <= b THEN a ELSE b

Max(a, b) == IF a >= b THEN a ELSE b

\* All sequences over S of length <= n.
SeqsUpTo(S, n) == UNION {[1..k -> S] : k \in 0..n}

\* The characters message texts, blocklist entries and patterns are drawn from.
Alphabet == {"a", "b"}

\* `s in t` on two str values: s occurs as a contiguous substring of t.
StrIn(s, t) ==
    \E i \in 0..(Len(t) - Len(s)) : SubSeq(t, i + 1, i + Len(s)) = s

\* re.search(rre, s) is not None, for the patterns the model draws: a
\* pattern without metacharacters matches where it occurs in s.
ReSearch(rre, s) == StrIn(rre, s)

\* seq[a:b] for a list or str, with Python's clamping of the two indices.
PySlice(s, a, b) ==
    LET n == Len(s)
        lo == IF a < 0 THEN Max(n + a, 0) ELSE Min(a, n)
        hi == IF b < 0 THEN Max(n + b, 0) ELSE Min(b, n)
    IN  SubSeq(s, lo + 1, hi)

\* str(n) / f"{n}" for an int n >= 0: its decimal digits.
Digit(d) == <<"0", "1", "2", "3", "4", "5", "6", "7", "8", "9">>[d + 1]

RECURSIVE IntStr(_)
IntStr(n) == IF n < 10 THEN <<Digit(n)>> ELSE IntStr(n \div 10) \o <<Digit(n % 10)>>

\* sep.join(parts) for a list of str.
RECURSIVE Join(_, _)
Join(sep, parts) ==
    IF parts = <<>> THEN <<>>
    ELSE IF Len(parts) = 1 THEN parts[1]
    ELSE parts[1] \o sep \o Join(sep, Tail(parts))

\* s.split(c) for a one-character separator c.
RECURSIVE Split(_, _)
Split(s, c) ==
    IF \A i \in 1..Len(s) : s[i] # c THEN <<s>>
    ELSE LET k == CHOOSE i \in 1..Len(s) :
                      s[i] = c /\ \A j \in 1..(i - 1) : s[j] # c
         IN  <<SubSeq(s, 1, k - 1)>> \o Split(SubSeq(s, k + 1, Len(s)), c)

\* s.endswith(t)
EndsWith(s, t) ==
    Len(s) >= Len(t) /\ SubSeq(s, Len(s) - Len(t) + 1, Len(s)) = t

\* ord(c) for the characters of the paths drawn (their ASCII order).
AsciiOrder ==
    <<".", "/", "0", "1", "2", "3", "4", "5", "6", "7", "8", "9",
      "a", "b", "c", "d", "e", "f", "g", "h", "i", "j", "k", "l", "m",
      "n", "o", "p", "q", "r", "s", "t", "u", "v", "w", "x", "y", "z">>

Ord(c) == CHOOSE i \in 1..Len(AsciiOrder) : AsciiOrder[i] = c

\* s < t on two str values: lexicographic by character.
RECURSIVE StrLess(_, _)
StrLess(s, t) ==
    IF t = <<>> THEN FALSE
    ELSE IF s = <<>> THEN TRUE
    ELSE IF s[1] = t[1] THEN StrLess(Tail(s), Tail(t))
    ELSE Ord(s[1]) < Ord(t[1])

\* (f1, l1) <= (f2, l2) on the (file, line) pairs of two findings.
FileLineLeq(f, g) ==
    \/ StrLess(f.file, g.file)
    \/ f.file = g.file /\ f.line <= g.line

\* What a call yields: a returned value, or the exception that left it.
Ret(v) == [ret |-> v]

Raise(name) == [exc |-> name]

IsExc(v) == "exc" \in DOMAIN v

KeyError == Raise("KeyError")

---------------------------------------------------------------------------
(* The filter configuration, as yaml.safe_load returns it.  An empty       *)
(* document loads as None; a mapping loads as a dict.  `keys` is the set   *)
(* of keys the dict holds; the value under "filter" is None or a dict      *)
(* whose own `keys` say which of the two lists it holds.                   *)

NoFilter == [none |-> TRUE, keys |-> {}, message |-> <<>>, message_re |-> <<>>]

FilterDict(ks, m, mre) ==
    [none |-> FALSE, keys |-> ks, message |-> m, message_re |-> mre]

ConfigNone == [none |-> TRUE, keys |-> {}, filter |-> NoFilter]

ConfigDict(ks, f) == [none |-> FALSE, keys |-> ks, filter |-> f]

\* prh_config = {'filter': {'message': [], 'message_re': []}}
DefaultConfig ==
    ConfigDict({"filter"}, FilterDict({"message", "message_re"}, <<>>, <<>>))

\* `not d` for d None or a dict.
NotDict(d) == d.none \/ d.keys = {}

\* filter_message_by_match(self, x), with self.prh_config = cfg.  Yields
\* Ret(TRUE), Ret(FALSE), or KeyError when a subscript meets a missing key.
filter_message_by_match_inverted(cfg, f) ==
    IF NotDict(cfg) THEN Ret(TRUE)
    ELSE IF "filter" \notin cfg.keys THEN KeyError
    ELSE IF NotDict(cfg.filter) THEN Ret(TRUE)
    ELSE IF "message" \notin cfg.filter.keys THEN KeyError
    ELSE IF cfg.filter.message = <<>> THEN Ret(TRUE)
    ELSE IF "message" \notin DOMAIN f THEN KeyError
    ELSE Ret(~ \E i \in 1..Len(cfg.filter.message) :
                   StrIn(cfg.filter.message[i], f.message))

filter_message_by_match(cfg, f) ==
    IF NotDict(cfg) THEN Ret(TRUE)
    ELSE IF "filter" \notin cfg.keys THEN KeyError
    ELSE IF NotDict(cfg.filter) THEN Ret(TRUE)
    ELSE IF "message" \notin cfg.filter.keys THEN KeyError
    ELSE IF cfg.filter.message = <<>> THEN Ret(TRUE)
    ELSE IF "message" \notin DOMAIN f THEN KeyError
    ELSE Ret(~ \E i \in 1..Len(cfg.filter.message) :
                   StrIn(f.message, cfg.filter.message[i]))

\* filter_message_by_re(self, x)
filter_message_by_re(cfg, f) ==
    IF NotDict(cfg) THEN Ret(TRUE)
    ELSE IF "filter" \notin cfg.keys THEN KeyError
    ELSE IF NotDict(cfg.filter) THEN Ret(TRUE)
    ELSE IF "message_re" \notin cfg.filter.keys THEN KeyError
    ELSE IF cfg.filter.message_re = <<>> THEN Ret(TRUE)
    ELSE IF "message" \notin DOMAIN f THEN KeyError
    ELSE Ret(~ \E i \in 1..Len(cfg.filter.message_re) :
                   ReSearch(cfg.filter.message_re[i], f.message))

\* filter_message(self, x): `a and b` evaluates b only when a is true.
filter_message(cfg, f) ==
    LET a == filter_message_by_match(cfg, f)
    IN  IF a = Ret(TRUE) THEN filter_message_by_re(cfg, f) ELSE a

---------------------------------------------------------------------------
(* The working tree.  A file is [status, lines]: status "ok" when open()   *)
(* and readlines() succeed, otherwise the reason they raise; lines is      *)
(* what readlines() returns, each line a str ending in its newline.        *)

NL == "\n"

Readable(lines) == [status |-> "ok", lines |-> lines]

Unreadable(why) == [status |-> why, lines |-> <<>>]

\* "minimized js..."
MinimizedJs == <<"minimized js...">>

\* ".js"
DotJs == <<".", "j", "s">>

\* readSnippet, lines 88-90: the 0-based index the slice starts at, and
\* the slice of the file's lines.
LineN(line) == IF line > LeadLines THEN line - LeadLines ELSE line

Window(lines, line) == PySlice(lines, LineN(line), LineN(line) + WindowLen)

\* readSnippet(path, line), nested in normalize_semgrep, reading from the
\* tree `files`.  The try block catches every Exception of open/readlines
\* and returns []; the else block numbers the slice.
readSnippet_raising(files, path, line) ==
    IF path \notin DOMAIN files THEN Raise("FileNotFoundError")
    ELSE IF files[path].status # "ok" THEN Raise(files[path].status)
    ELSE LET line_n == LineN(line)
             lines == Window(files[path].lines, line)
         IN  IF /\ EndsWith(path, DotJs)
                /\ Len(lines) > 0
                /\ \E i \in 1..Len(lines) : Len(lines[i]) > MinifiedLen
             THEN Ret(<<MinimizedJs>>)
             ELSE Ret([i \in 1..Len(lines) |->
                          IntStr((i - 1) + line_n + 1) \o <<" ">> \o lines[i]])

readSnippet_slice_offsets(files, path, line) ==
    IF path \notin DOMAIN files \/ files[path].status # "ok" THEN Ret(<<>>)
    ELSE LET line_n == LineN(line)
             lines == Window(files[path].lines, line)
         IN  IF /\ EndsWith(path, DotJs)
                /\ Len(lines) > 0
                /\ \E i \in 1..Len(lines) : Len(lines[i]) > MinifiedLen
             THEN Ret(<<MinimizedJs>>)
             ELSE Ret([i \in 1..Len(lines) |->
                          IntStr((i - 1) + 1) \o <<" ">> \o lines[i]])

readSnippet_no_heuristic(files, path, line) ==
    IF path \notin DOMAIN files \/ files[path].status # "ok" THEN Ret(<<>>)
    ELSE LET line_n == LineN(line)
             lines == Window(files[path].lines, line)
         IN  IF /\ Len(lines) > 0
                /\ \E i \in 1..Len(lines) : Len(lines[i]) > MinifiedLen
             THEN Ret(<<MinimizedJs>>)
             ELSE Ret([i \in 1..Len(lines) |->
                          IntStr((i - 1) + line_n + 1) \o <<" ">> \o lines[i]])

readSnippet(files, path, line) ==
    IF path \notin DOMAIN files \/ files[path].status # "ok" THEN Ret(<<>>)
    ELSE LET line_n == LineN(line)
             lines == Window(files[path].lines, line)
         IN  IF /\ EndsWith(path, DotJs)
                /\ Len(lines) > 0
                /\ \E i \in 1..Len(lines) : Len(lines[i]) > MinifiedLen
             THEN Ret(<<MinimizedJs>>)
             ELSE Ret([i \in 1..Len(lines) |->
                          IntStr((i - 1) + line_n + 1) \o <<" ">> \o lines[i]])

---------------------------------------------------------------------------
(* The normalizers.  Each is a loop over the items of x; the operators     *)
(* below give what one iteration does with its item:                       *)
(*   Ret(finding)      the finding is appended to result;                  *)
(*   Caught("KeyError") the except clause logs, nothing is appended;       *)
(*   Raise(...)        the exception leaves the normalizer.                *)

Caught(name) == [caught |-> name]

IsCaught(v) == "caught" \in DOMAIN v

Has(d, ks) == ks \subseteq DOMAIN d

Unknown == <<"unknown">>

\* normalize_prospector: the body of the for loop.
normalize_prospector_item(item) ==
    IF /\ Has(item, {"source", "code", "location", "message"})
       /\ Has(item.location, {"function", "path", "line", "character"})
    THEN Ret([tool |-> item.source,
              code |-> item.code,
              severity |-> Unknown,
              confidence |-> Unknown,
              function |-> item.location.function,
              file |-> item.location.path,
              line |-> item.location.line,
              position |-> item.location.character,
              message |-> item.message])
    ELSE Caught("KeyError")

\* normalize_gitlab_sast: the body of the for loop.
normalize_gitlab_sast_item_last_first(item) ==
    IF /\ Has(item, {"scanner", "identifiers", "severity", "confidence",
                     "location", "message"})
       /\ Has(item.scanner, {"id"})
       /\ \A i \in 1..Len(item.identifiers) : Has(item.identifiers[i], {"value"})
       /\ Has(item.location, {"file", "start_line"})
    THEN Ret([tool |-> item.scanner.id,
              code |-> Join(<<",", " ">>,
                            [i \in 1..Len(item.identifiers) |->
                                 item.identifiers[Len(item.identifiers) + 1 - i].value]),
              severity |-> item.severity,
              confidence |-> item.confidence,
              function |-> Unknown,
              file |-> item.location.file,
              line |-> item.location.start_line,
              position |-> 0,
              message |-> item.message])
    ELSE Caught("KeyError")

normalize_gitlab_sast_item(item) ==
    IF /\ Has(item, {"scanner", "identifiers", "severity", "confidence",
                     "location", "message"})
       /\ Has(item.scanner, {"id"})
       /\ \A i \in 1..Len(item.identifiers) : Has(item.identifiers[i], {"value"})
       /\ Has(item.location, {"file", "start_line"})
    THEN Ret([tool |-> item.scanner.id,
              code |-> Join(<<",", " ">>,
                            [i \in 1..Len(item.identifiers) |->
                                 item.identifiers[i].value]),
              severity |-> item.severity,
              confidence |-> item.confidence,
              function |-> Unknown,
              file |-> item.location.file,
              line |-> item.location.start_line,
              position |-> 0,
              message |-> item.message])
    ELSE Caught("KeyError")

\* s.rstrip(c) / s.lstrip(c) for a one-character c.
RECURSIVE RStrip(_, _)
RStrip(s, c) ==
    IF s # <<>> /\ s[Len(s)] = c THEN RStrip(SubSeq(s, 1, Len(s) - 1), c) ELSE s

RECURSIVE LStrip(_, _)
LStrip(s, c) == IF s # <<>> /\ s[1] = c THEN LStrip(Tail(s), c) ELSE s

\* The largest i with s[i] = c, 0 when there is none (s.rfind(c) + 1).
RFind(s, c) ==
    IF \E i \in 1..Len(s) : s[i] = c
    THEN CHOOSE i \in 1..Len(s) : s[i] = c /\ \A j \in (i + 1)..Len(s) : s[j] # c
    ELSE 0

\* pathlib.Path(p).suffix: the last dot of the final path component and
\* what follows it, unless that dot starts or ends the component.
Suffix(p) ==
    LET name == SubSeq(p, RFind(p, "/") + 1, Len(p))
        i == RFind(name, ".")
    IN  IF 1 < i /\ i < Len(name) THEN SubSeq(name, i, Len(name)) ELSE <<>>

\* html.escape(s): & < > " ' become entities (quote=True by default).
EscapeChar(c) ==
    CASE c = "&" -> <<"&amp;">>
      [] c = "<" -> <<"&lt;">>
      [] c = ">" -> <<"&gt;">>
      [] c = "\"" -> <<"&quot;">>
      [] c = "'" -> <<"&#x27;">>
      [] OTHER -> <<c>>

RECURSIVE HtmlEscape(_)
HtmlEscape(s) ==
    IF s = <<>> THEN <<>> ELSE EscapeChar(s[1]) \o HtmlEscape(Tail(s))

\* f"{v}" for args.sha, which is None when --sha was not given.
NoSha == [none |-> TRUE, s |-> <<>>]

Sha(s) == [none |-> FALSE, s |-> s]

FormatSha(sha) == IF sha.none THEN <<"None">> ELSE sha.s

HighlightExts ==
    {<<"p", "h", "p">>, <<"j", "s">>, <<"y", "a", "m", "l">>,
     <<"j", "a", "v", "a">>, <<"h", "t", "m", "l">>}

\* The three badges of normalize_semgrep (lines 122-124).
Badge(attr, v) ==
    <<"<div class=\"data\" data-", attr, "=\"">> \o v
        \o <<"\"><span class=\"badge\">">> \o v \o <<"</span></div>">>

BadgeConfidence(v) ==
    <<"<div class=\"data\" data-confidence=\"">> \o v
        \o <<"\" ><span class=\"badge \">">> \o v \o <<"</span></div>">>

\* normalize_semgrep: the body of the for loop.  Lines 105-110 stand
\* outside the try block; only the dict display of lines 120-128 is inside.
normalize_semgrep_item(files, a, item) ==
    IF ~ /\ Has(item, {"path", "start"})
         /\ Has(item.start, {"line"})
    THEN KeyError
    ELSE LET snip == readSnippet(files, item.path, item.start.line)
         IN
    IF IsExc(snip) THEN snip
    ELSE IF ~ /\ Has(item, {"extra"})
              /\ Has(item.extra, {"metadata", "severity"})
              /\ Has(item.extra.metadata, {"impact", "confidence"})
    THEN KeyError
    ELSE LET url == RStrip(a.repository_url, "/")
             joined == Join(<<>>, snip.ret)
             impact == item.extra.metadata.impact
             severity == item.extra.severity
             confidence == item.extra.metadata.confidence
             start_line == item.start.line
             ext == LStrip(Suffix(item.path), ".")
             html_class == IF ext \in HighlightExts
                           THEN <<"language-">> \o ext ELSE <<>>
             code == IF ext = <<"h", "t", "m", "l">> THEN HtmlEscape(joined)
                     ELSE joined
         IN
    IF ~ /\ Has(item, {"check_id"})
         /\ Has(item.start, {"col"})
         /\ Has(item.extra, {"message"})
    THEN Caught("KeyError")
    ELSE Ret([code |-> Join(<<" . ">>, Split(item.check_id, ".")),
              impact |-> Badge("impact", impact),
              severity |-> Badge("severity", severity),
              confidence |-> BadgeConfidence(confidence),
              file |-> <<"<a target=\"_blank\" href=\"">> \o url
                         \o <<"/blob/">> \o FormatSha(a.sha) \o <<"/">>
                         \o item.path \o <<"#L">> \o IntStr(start_line)
                         \o <<"\">">> \o Join(<<" / ">>, Split(item.path, "/"))
                         \o <<"</a>">>,
              message |-> item.extra.message,
              snippet |-> <<"<pre>line: ">> \o IntStr(start_line)
                            \o <<", pos: ">> \o IntStr(item.start.col)
                            \o <<" <code class=\"">> \o html_class \o <<"\">">>
                            \o code \o <<"</code></pre>">>])

\* What one iteration of the normalizer selected by args.filter does.
NormalizeItem(files, a, item) ==
    CASE a.filter = "gitlab-sast" -> normalize_gitlab_sast_item(item)
      [] a.filter = "semgrep" -> normalize_semgrep_item(files, a, item)
      [] a.filter = "prospector" -> normalize_prospector_item(item)

---------------------------------------------------------------------------
(* main.                                                                   *)

PRH_CONFIG_FILE == ".prospector-html.yaml"

PRH_DEF_OUTPUT_FILE == "prospector-html-report"

\* default='https://github.com' of --repository-url
DefaultUrl ==
    <<"h", "t", "t", "p", "s", ":", "/", "/",
      "g", "i", "t", "h", "u", "b", ".", "c", "o", "m">>

NotReturned == [running |-> TRUE]

\* An exception no handler of main catches: the interpreter ends the run
\* with a traceback naming the call it left main through.
Uncaught(e, where) == [exc |-> e.exc, in |-> where]

\* Lines 179-187: the section of the input document args.filter selects.
InputSection(json_obj, kind) ==
    CASE kind = "gitlab-sast" -> json_obj.vulnerabilities
      [] kind = "semgrep" -> json_obj.results
      [] kind = "prospector" -> json_obj.messages
      [] OTHER -> json_obj

\* Lines 193-196: the deduplication loop, `acc` being deduplicated_msgs
\* so far and `rest` the records of msgs not yet visited.
RECURSIVE dedup_loop_adjacent(_, _)
dedup_loop_adjacent(acc, rest) ==
    IF rest = <<>> THEN acc
    ELSE dedup_loop_adjacent(IF acc # <<>> /\ acc[Len(acc)] = Head(rest)
                             THEN acc
                             ELSE Append(acc, Head(rest)),
                             Tail(rest))

RECURSIVE dedup_loop(_, _)
dedup_loop(acc, rest) ==
    IF rest = <<>> THEN acc
    ELSE dedup_loop(IF \E i \in 1..Len(acc) : acc[i] = Head(rest)
                    THEN acc
                    ELSE Append(acc, Head(rest)),
                    Tail(rest))

\* Line 209: list(filter(self.filter_message, deduplicated_msgs)).  The
\* first exception of the predicate leaves the call.
RECURSIVE filter_loop(_, _, _)
filter_loop(cfg, acc, rest) ==
    IF rest = <<>> THEN Ret(acc)
    ELSE LET r == filter_message(cfg, Head(rest))
         IN  IF IsExc(r) THEN r
             ELSE filter_loop(cfg,
                              IF r.ret THEN Append(acc, Head(rest)) ELSE acc,
                              Tail(rest))

\* sorted(xs, key=lambda f: (f['file'], f['line'])), by insertion.
RECURSIVE InsertByFileLine(_, _)
InsertByFileLine(sorted, f) ==
    IF sorted = <<>> THEN <<f>>
    ELSE IF FileLineLeq(sorted[Len(sorted)], f) THEN Append(sorted, f)
    ELSE Append(InsertByFileLine(SubSeq(sorted, 1, Len(sorted) - 1), f),
                sorted[Len(sorted)])

RECURSIVE SortByFileLine(_)
SortByFileLine(xs) ==
    IF xs = <<>> THEN <<>>
    ELSE InsertByFileLine(SortByFileLine(SubSeq(xs, 1, Len(xs) - 1)), xs[Len(xs)])

filter_list_sorted(cfg, xs) ==
    LET r == filter_loop(cfg, <<>>, xs)
    IN  IF IsExc(r) THEN r
        ELSE IF \A i \in 1..Len(r.ret) : {"file", "line"} \subseteq DOMAIN r.ret[i]
        THEN Ret(SortByFileLine(r.ret))
        ELSE r

filter_list(cfg, xs) == filter_loop(cfg, <<>>, xs)

\* Lines 554-559: the name of the report file.
ReportFile(a) ==
    IF a.output = PRH_DEF_OUTPUT_FILE
    THEN IF a.json THEN <<a.output, ".json">> ELSE <<a.output, ".html">>
    ELSE <<a.output>>

\* Lines 564-575.
RetCode_flag_ignored(a, filtered) == IF filtered # <<>> THEN 1 ELSE 0

RetCode(a, filtered) ==
    LET ret == IF filtered # <<>> THEN 1 ELSE 0
    IN  IF a.zero_exit THEN 0 ELSE ret

\* Lines 160-171: the configuration file is loaded.
LoadConfig_goes_on ==
    /\ pc = "load_config"
    /\ prh_config' = IF config_file.status = "ok" THEN config_file.doc
                     ELSE prh_config
    /\ pc' = "read_input"
    /\ UNCHANGED <<args, config_file, input_file, fs, msgs, deduplicated_msgs,
                   result, idx, filtered_msgs, report, ret_code, x, out>>

LoadConfig ==
    /\ pc = "load_config"
    /\ IF config_file.status = "ok"
       THEN /\ prh_config' = config_file.doc
            /\ pc' = "read_input"
            /\ UNCHANGED ret_code
       ELSE IF config_file.status = "YAMLError"
       THEN /\ ret_code' = Ret(3)
            /\ pc' = "exit"
            /\ UNCHANGED prh_config
       ELSE IF args.config # PRH_CONFIG_FILE
       THEN /\ ret_code' = Ret(3)
            /\ pc' = "exit"
            /\ UNCHANGED prh_config
       ELSE /\ pc' = "read_input"
            /\ UNCHANGED <<prh_config, ret_code>>
    /\ UNCHANGED <<args, config_file, input_file, fs, msgs, deduplicated_msgs,
                   result, idx, filtered_msgs, report, x, out>>

\* Lines 173-187.
ReadInput ==
    /\ pc = "read_input"
    /\ msgs' = InputSection(input_file, args.filter)
    /\ pc' = "check_sha"
    /\ UNCHANGED <<args, config_file, input_file, fs, prh_config,
                   deduplicated_msgs, result, idx, filtered_msgs, report,
                   ret_code, x, out>>

\* Lines 189-191.
CheckSha_semgrep_only ==
    /\ pc = "check_sha"
    /\ IF /\ args.filter = "semgrep"
          /\ args.repository_url # <<>>
          /\ (args.sha.none \/ args.sha.s = <<>>)
       THEN ret_code' = Ret(1) /\ pc' = "exit"
       ELSE pc' = "dedup" /\ UNCHANGED ret_code
    /\ UNCHANGED <<args, config_file, input_file, fs, prh_config, msgs,
                   deduplicated_msgs, result, idx, filtered_msgs, report, x, out>>

CheckSha ==
    /\ pc = "check_sha"
    /\ IF args.repository_url # <<>> /\ (args.sha.none \/ args.sha.s = <<>>)
       THEN ret_code' = Ret(1) /\ pc' = "exit"
       ELSE pc' = "dedup" /\ UNCHANGED ret_code
    /\ UNCHANGED <<args, config_file, input_file, fs, prh_config, msgs,
                   deduplicated_msgs, result, idx, filtered_msgs, report, x, out>>

\* Lines 193-196.
Dedup ==
    /\ pc = "dedup"
    /\ deduplicated_msgs' = dedup_loop(<<>>, msgs)
    /\ result' = <<>>
    /\ idx' = 0
    /\ pc' = "normalize"
    /\ UNCHANGED <<args, config_file, input_file, fs, prh_config, msgs,
                   filtered_msgs, report, ret_code, x, out>>

\* One iteration of the for loop of the normalizer lines 198-203 call.
NormalizeStep ==
    /\ pc = "normalize"
    /\ args.filter # "none"
    /\ idx < Len(deduplicated_msgs)
    /\ LET r == NormalizeItem(fs, args, deduplicated_msgs[idx + 1])
       IN  IF IsExc(r)
           THEN /\ ret_code' = Uncaught(r, "normalize")
                /\ pc' = "exit"
                /\ UNCHANGED <<idx, result>>
           ELSE /\ idx' = idx + 1
                /\ result' = IF IsCaught(r) THEN result ELSE Append(result, r.ret)
                /\ UNCHANGED <<pc, ret_code>>
    /\ UNCHANGED <<args, config_file, input_file, fs, prh_config, msgs,
                   deduplicated_msgs, filtered_msgs, report, x, out>>

\* The normalizer returns result, which main assigns to deduplicated_msgs;
\* with --filter none nothing is called (lines 204-206).
NormalizeReturn ==
    /\ pc = "normalize"
    /\ IF args.filter = "none" THEN TRUE ELSE idx = Len(deduplicated_msgs)
    /\ deduplicated_msgs' =
           IF args.filter = "none" THEN deduplicated_msgs ELSE result
    /\ pc' = "filter"
    /\ UNCHANGED <<args, config_file, input_file, fs, prh_config, msgs, result,
                   idx, filtered_msgs, report, ret_code, x, out>>

\* Line 209.
Filter ==
    /\ pc = "filter"
    /\ LET r == filter_list(prh_config, deduplicated_msgs)
       IN  IF IsExc(r)
           THEN /\ ret_code' = Uncaught(r, "filter")
                /\ pc' = "exit"
                /\ UNCHANGED filtered_msgs
           ELSE /\ filtered_msgs' = r.ret
                /\ pc' = "write"
                /\ UNCHANGED ret_code
    /\ UNCHANGED <<args, config_file, input_file, fs, prh_config, msgs,
                   deduplicated_msgs, result, idx, report, x, out>>

\* Lines 243-562: the report is assembled from filtered_msgs and written.
WriteReport ==
    /\ pc = "write"
    /\ report' = <<[file |-> ReportFile(args), data |-> filtered_msgs]>>
    /\ pc' = "return"
    /\ UNCHANGED <<args, config_file, input_file, fs, prh_config, msgs,
                   deduplicated_msgs, result, idx, filtered_msgs, ret_code, x, out>>

\* Lines 564-575.
Return ==
    /\ pc = "return"
    /\ ret_code' = Ret(RetCode(args, filtered_msgs))
    /\ pc' = "exit"
    /\ UNCHANGED <<args, config_file, input_file, fs, prh_config, msgs,
                   deduplicated_msgs, result, idx, filtered_msgs, report, x, out>>

---------------------------------------------------------------------------
(* The inputs main is run on.                                              *)

AppPy == <<"a", "p", "p", ".", "p", "y">>

AppHtml == <<"a", "p", "p", ".", "h", "t", "m", "l">>

GonePy == <<"s", "r", "c", "/", "g", "o", "n", "e", ".", "p", "y">>

AppHtm == <<"a", "p", "p", ".", "h", "t", "m">>

\* A message of the aggregator (prospector's "messages" section).
ProspectorRecord(path, line, message) ==
    [source |-> <<"pylint">>,
     code |-> <<"W0611">>,
     message |-> message,
     location |-> [module |-> <<"app">>, function |-> <<"f">>, path |-> path,
                   line |-> line, character |-> 4]]

ProspectorPool ==
    {ProspectorRecord(AppPy, 10, <<"a", "b">>),
     ProspectorRecord(AppPy, 3, <<"b">>),
     \* location without 'path'
     [source |-> <<"pylint">>, code |-> <<"W0611">>, message |-> <<"a">>,
      location |-> [module |-> <<"app">>, function |-> <<"f">>, line |-> 5,
                    character |-> 0]]}

\* A vulnerability of the generic SAST report.
GitlabPool ==
    {[scanner |-> [id |-> <<"bandit">>, name |-> <<"Bandit">>],
      identifiers |-> <<[type |-> <<"bandit_test_id">>, value |-> <<"B", "1">>],
                        [type |-> <<"cwe">>, value |-> <<"7", "8">>]>>,
      severity |-> <<"High">>,
      confidence |-> <<"Low">>,
      location |-> [file |-> AppPy, start_line |-> 7],
      message |-> <<"a">>],
     [scanner |-> [id |-> <<"semgrep">>],
      identifiers |-> <<[type |-> <<"cwe">>, value |-> <<"2", "2">>]>>,
      severity |-> <<"Low">>,
      confidence |-> <<"High">>,
      location |-> [file |-> AppPy, start_line |-> 2],
      message |-> <<"a", "b">>],
     \* no 'scanner'
     [identifiers |-> <<[type |-> <<"cwe">>, value |-> <<"7", "8">>]>>,
      severity |-> <<"High">>,
      confidence |-> <<"Low">>,
      location |-> [file |-> AppPy, start_line |-> 2],
      message |-> <<"b">>]}

\* A result of the pattern scanner.
SemgrepRecord(path, line, message) ==
    [check_id |-> <<"x", "s", "s", ".", "a">>,
     path |-> path,
     start |-> [line |-> line, col |-> 1],
     extra |-> [message |-> message,
                severity |-> <<"ERROR">>,
                metadata |-> [impact |-> <<"HIGH">>, confidence |-> <<"LOW">>]]]

SemgrepPool ==
    {SemgrepRecord(AppHtml, 1, <<"a", "b">>),
     SemgrepRecord(GonePy, 3, <<"b">>),
     SemgrepRecord(AppHtm, 1, <<"a">>),
     \* extra without 'metadata'
     [check_id |-> <<"x", "s", "s", ".", "a">>,
      path |-> AppHtml,
      start |-> [line |-> 2, col |-> 1],
      extra |-> [message |-> <<"a">>, severity |-> <<"ERROR">>]],
     \* no 'check_id'
     [path |-> GonePy,
      start |-> [line |-> 1, col |-> 1],
      extra |-> [message |-> <<"a">>,
                 severity |-> <<"ERROR">>,
                 metadata |-> [impact |-> <<"LOW">>, confidence |-> <<"LOW">>]]]}

\* With --filter none the document itself is the list of records.
NonePool ==
    {ProspectorRecord(AppPy, 10, <<"a", "b">>),
     [source |-> <<"pylint">>, code |-> <<"W0611">>]}

Pool(kind) ==
    CASE kind = "gitlab-sast" -> GitlabPool
      [] kind = "semgrep" -> SemgrepPool
      [] kind = "prospector" -> ProspectorPool
      [] OTHER -> NonePool

InputDocument(kind, records) ==
    CASE kind = "gitlab-sast" -> [vulnerabilities |-> records]
      [] kind = "semgrep" -> [results |-> records]
      [] kind = "prospector" -> [messages |-> records]
      [] OTHER -> records

Kinds == {"none", "prospector", "semgrep", "gitlab-sast"}

\* The working tree main runs in: app.html and app.htm exist, src/gone.py
\* does not.
MainTree ==
    (AppHtml :> Readable(<<
        <<"<", "p", ">", NL>>,
        <<"<", "s", "c", "r", "i", "p", "t", ">", NL>>,
        <<"<", "/", "p", ">", NL>> >>))
    @@ (AppHtm :> Readable(<<
        <<"<", "p", ">", NL>>,
        <<"<", "b", ">", NL>> >>))

MainConfigs ==
    {ConfigNone,
     ConfigDict({"filter"},
                FilterDict({"message", "message_re"}, <<<<"b">>>>, <<>>)),
     ConfigDict({"filter"}, FilterDict({"message"}, <<<<"b">>>>, <<>>)),
     ConfigDict({"filter"},
                FilterDict({"message", "message_re"}, <<>>, <<<<"a">>>>)),
     ConfigDict({"other"}, NoFilter)}

\* <<args.config, what opening and parsing that file meets>>
ConfigCases ==
    {<<PRH_CONFIG_FILE, [status |-> "ok", doc |-> c]>> : c \in MainConfigs}
    \cup {<<PRH_CONFIG_FILE, [status |-> "YAMLError", doc |-> ConfigNone]>>,
          <<PRH_CONFIG_FILE, [status |-> "IOError", doc |-> ConfigNone]>>,
          <<"custom.yaml", [status |-> "IOError", doc |-> ConfigNone]>>}

Init ==
    /\ pc = "load_config"
    /\ \E c \in ConfigCases :
          /\ config_file = c[2]
          /\ args \in [filter : Kinds,
                        config : {c[1]},
                        output : {PRH_DEF_OUTPUT_FILE},
                        json : BOOLEAN,
                        zero_exit : BOOLEAN,
                        repository_url : {DefaultUrl, <<>>},
                        sha : {NoSha, Sha(<<"m", "a", "i", "n">>)}]
    /\ \E records \in SeqsUpTo(Pool(args.filter), MaxMsgs) :
          input_file = InputDocument(args.filter, records)
    /\ fs = MainTree
    /\ prh_config = DefaultConfig
    /\ msgs = <<>>
    /\ deduplicated_msgs = <<>>
    /\ result = <<>>
    /\ idx = 0
    /\ filtered_msgs = <<>>
    /\ report = <<>>
    /\ ret_code = NotReturned
    /\ x = <<>>
    /\ out = NotReturned

Next ==
    \/ LoadConfig
    \/ ReadInput
    \/ CheckSha
    \/ Dedup
    \/ NormalizeStep
    \/ NormalizeReturn
    \/ Filter
    \/ WriteReport
    \/ Return

Spec == Init /\ [][Next]_vars

---------------------------------------------------------------------------
(* The message filter on its own: prh_config and the finding x are drawn,  *)
(* one of the three predicates is called, out holds what the call yields.  *)

\* Every str over Alphabet of length <= MaxStrLen.
Texts == SeqsUpTo(Alphabet, MaxStrLen)

Patterns == {<<"a">>, <<"b", "a">>}

\* The documents yaml.safe_load can return for the filter configuration:
\* an empty document, a mapping without 'filter', 'filter' null or empty,
\* and a 'filter' mapping holding any subset of the two lists.
FilterConfigs ==
    {ConfigNone,
     ConfigDict({}, NoFilter),
     ConfigDict({"other"}, NoFilter),
     ConfigDict({"filter"}, NoFilter),
     ConfigDict({"filter"}, FilterDict({}, <<>>, <<>>))}
    \cup {ConfigDict({"filter"}, FilterDict({"message"}, m, <<>>)) :
              m \in SeqsUpTo(Texts, MaxList)}
    \cup {ConfigDict({"filter"}, FilterDict({"message_re"}, <<>>, r)) :
              r \in SeqsUpTo(Patterns, 1)}
    \cup {ConfigDict({"filter"}, FilterDict({"message", "message_re"}, m, r)) :
              m \in SeqsUpTo(Texts, MaxList), r \in SeqsUpTo(Patterns, 1)}

Finding(message) ==
    [tool |-> <<"pylint">>, code |-> <<"W0611">>, severity |-> Unknown,
     confidence |-> Unknown, function |-> <<"f">>, file |-> AppPy, line |-> 1,
     position |-> 0, message |-> message]

NotInMain ==
    /\ args = [filter |-> "none"]
    /\ config_file = [status |-> "ok", doc |-> ConfigNone]
    /\ input_file = <<>>
    /\ msgs = <<>>
    /\ deduplicated_msgs = <<>>
    /\ result = <<>>
    /\ idx = 0
    /\ filtered_msgs = <<>>
    /\ report = <<>>
    /\ ret_code = NotReturned

InitFilter ==
    /\ NotInMain
    /\ pc = "call"
    /\ fs = MainTree
    /\ prh_config \in FilterConfigs
    /\ x \in {Finding(m) : m \in Texts}
    /\ out = [fn |-> "", val |-> NotReturned]

Call(fn, val) ==
    /\ pc = "call"
    /\ out' = [fn |-> fn, val |-> val]
    /\ pc' = "returned"
    /\ UNCHANGED <<args, config_file, input_file, fs, prh_config, msgs,
                   deduplicated_msgs, result, idx, filtered_msgs, report,
                   ret_code, x>>

CallFilterMessageByMatch ==
    Call("filter_message_by_match", filter_message_by_match(prh_config, x))

CallFilterMessageByRe ==
    Call("filter_message_by_re", filter_message_by_re(prh_config, x))

CallFilterMessage ==
    Call("filter_message", filter_message(prh_config, x))

NextFilter ==
    \/ CallFilterMessageByMatch
    \/ CallFilterMessageByRe
    \/ CallFilterMessage

SpecFilter == InitFilter /\ [][NextFilter]_vars

---------------------------------------------------------------------------
(* readSnippet on its own: a tree holding one file, a path and a target    *)
(* line are drawn, readSnippet is called, out holds what it yields.        *)

\* Line i of a drawn file: distinct text per line, ending in its newline.
TextLine(i) == <<"l">> \o IntStr(i) \o <<NL>>

\* A line of n characters, newline included.
LongLine(n) == [k \in 1..n |-> IF k = n THEN NL ELSE "x"]

\* A file of n lines whose line `at` (if any) is `len` characters long.
FileOf(n, at, len) ==
    [i \in 1..n |-> IF i = at THEN LongLine(len) ELSE TextLine(i)]

SnippetFiles ==
    {Readable(FileOf(n, at, len)) :
         n \in 0..MaxFileLines, at \in 0..MaxFileLines,
         len \in {MinifiedLen, MinifiedLen + 1}}
    \cup {Unreadable("FileNotFoundError"), Unreadable("PermissionError"),
          Unreadable("UnicodeDecodeError")}

SnippetPaths ==
    {<<"a", ".", "j", "s">>, <<"b", ".", "p", "y">>, <<"c", ".", "j", "s", "x">>}

InitSnippet ==
    /\ NotInMain
    /\ pc = "call"
    /\ prh_config = DefaultConfig
    /\ x \in [path : SnippetPaths, line : 1..MaxLine]
    /\ \E f \in SnippetFiles : fs = (x.path :> f)
    /\ out = [fn |-> "", val |-> NotReturned]

CallReadSnippet == Call("readSnippet", readSnippet(fs, x.path, x.line))

NextSnippet == CallReadSnippet

SpecSnippet == InitSnippet /\ [][NextSnippet]_vars

---------------------------------------------------------------------------
(* Notions the properties below are stated in.                             *)

\* s is t with some elements left out, the rest in their order.
RECURSIVE IsSubseq(_, _)
IsSubseq(s, t) ==
    IF s = <<>> THEN TRUE
    ELSE IF t = <<>> THEN FALSE
    ELSE IF s[1] = t[1] THEN IsSubseq(Tail(s), Tail(t))
    ELSE IsSubseq(s, Tail(t))

\* The fields each normalizer variant requires of a raw record.
HasProspectorFields(item) ==
    /\ Has(item, {"source", "code", "location", "message"})
    /\ Has(item.location, {"function", "path", "line", "character"})

HasGitlabFields(item) ==
    /\ Has(item, {"scanner", "identifiers", "severity", "confidence", "location",
                  "message"})
    /\ Has(item.scanner, {"id"})
    /\ \A i \in 1..Len(item.identifiers) : Has(item.identifiers[i], {"value"})
    /\ Has(item.location, {"file", "start_line"})

HasSemgrepFields(item) ==
    /\ Has(item, {"check_id", "path", "start", "extra"})
    /\ Has(item.start, {"line", "col"})
    /\ Has(item.extra, {"message", "severity", "metadata"})
    /\ Has(item.extra.metadata, {"impact", "confidence"})

WellFormed(kind, item) ==
    CASE kind = "gitlab-sast" -> HasGitlabFields(item)
      [] kind = "semgrep" -> HasSemgrepFields(item)
      [] kind = "prospector" -> HasProspectorFields(item)
      [] OTHER -> TRUE

\* The well-formed records of xs, in their order.
RECURSIVE WellFormedOf(_, _)
WellFormedOf(kind, xs) ==
    IF xs = <<>> THEN <<>>
    ELSE IF WellFormed(kind, xs[1]) THEN <<xs[1]>> \o WellFormedOf(kind, Tail(xs))
    ELSE WellFormedOf(kind, Tail(xs))

\* The indices at which a record occurs in s for the first time.
FirstOccurrences(s) ==
    {i \in 1..Len(s) : \A j \in 1..(i - 1) : s[j] # s[i]}

\* The code between <code ...> and </code></pre> of a rendered snippet.
SnippetBody(snippet) ==
    LET k == CHOOSE i \in 1..Len(snippet) :
                 snippet[i] = "\">" /\ \A j \in 1..(i - 1) : snippet[j] # "\">"
    IN  SubSeq(snippet, k + 1, Len(snippet) - 1)

\* open(path) succeeds and the file reads.
CanRead(files, path) == path \in DOMAIN files /\ files[path].status = "ok"

Returned(fn) == pc = "returned" /\ out.fn = fn

---------------------------------------------------------------------------
(* C1.  Whatever field a raw record lacks, the normalizer in use does not  *)
(* raise: no run of main ends with an exception that left a normalizer,    *)
(* and once the normalizer has returned, its result holds exactly the      *)
(* well-formed records of the deduplicated batch, in order (the defective  *)
(* ones dropped).  Fails for normalize_semgrep, whose reads of path,       *)
(* start.line, extra.severity and extra.metadata.* stand outside its try.  *)
C1_NormalizersNeverRaise ==
    /\ ~ (IsExc(ret_code) /\ ret_code.in = "normalize")
    /\ (pc = "filter" /\ args.filter # "none") =>
           LET kept == WellFormedOf(args.filter, dedup_loop(<<>>, msgs))
           IN  /\ Len(deduplicated_msgs) = Len(kept)
               /\ \A k \in 1..Len(kept) :
                      Ret(deduplicated_msgs[k]) = NormalizeItem(fs, args, kept[k])

---------------------------------------------------------------------------
\* The configuration holds a non-empty 'message' list.
HasLiteralBlocklist(cfg) ==
    /\ ~ NotDict(cfg)
    /\ "filter" \in cfg.keys
    /\ ~ NotDict(cfg.filter)
    /\ "message" \in cfg.filter.keys
    /\ cfg.filter.message # <<>>

(* C2.  With a non-empty literal blocklist, filter_message_by_match        *)
(* rejects the finding (returns False) if and only if the finding's        *)
(* message text is a substring of at least one blocklist entry; a message  *)
(* that only contains an entry is not rejected.                            *)
C2_SubstringGateDirection ==
    (Returned("filter_message_by_match") /\ HasLiteralBlocklist(prh_config)) =>
        /\ ~ IsExc(out.val)
        /\ out.val.ret = FALSE <=>
               \E i \in 1..Len(prh_config.filter.message) :
                   StrIn(x.message, prh_config.filter.message[i])

\* The message contains a blocklist entry, is contained in none, and passes.
C2_Witness ==
    /\ Returned("filter_message_by_match")
    /\ HasLiteralBlocklist(prh_config)
    /\ \E i \in 1..Len(prh_config.filter.message) :
           /\ StrIn(prh_config.filter.message[i], x.message)
           /\ prh_config.filter.message[i] # <<>>
    /\ \A i \in 1..Len(prh_config.filter.message) :
           ~ StrIn(x.message, prh_config.filter.message[i])
    /\ out.val = Ret(TRUE)

---------------------------------------------------------------------------
\* The list `key` of the filter configuration is absent or empty.
ListAbsentOrEmpty(cfg, key) ==
    \/ NotDict(cfg)
    \/ "filter" \notin cfg.keys
    \/ NotDict(cfg.filter)
    \/ key \notin cfg.filter.keys
    \/ cfg.filter[key] = <<>>

(* C3.  A gate whose list is absent or empty passes every finding, and     *)
(* filter_message does not fail on such a configuration: whether the       *)
(* document is empty, has no (or a null) filter section, or holds only one *)
(* of the two lists.  Fails: a loaded mapping without 'filter', or a       *)
(* filter section without one of the two keys, raises KeyError.            *)
C3_AbsentGatePasses ==
    /\ (Returned("filter_message_by_match")
           /\ ListAbsentOrEmpty(prh_config, "message")) => out.val = Ret(TRUE)
    /\ (Returned("filter_message_by_re")
           /\ ListAbsentOrEmpty(prh_config, "message_re")) => out.val = Ret(TRUE)
    /\ Returned("filter_message") =>
           /\ ~ IsExc(out.val)
           /\ (/\ ListAbsentOrEmpty(prh_config, "message")
               /\ ListAbsentOrEmpty(prh_config, "message_re")) =>
                  out.val = Ret(TRUE)

---------------------------------------------------------------------------
(* C4.  The deduplication loop of main returns the records of msgs at      *)
(* their first occurrences, in their original order: a subsequence of      *)
(* msgs in which no two records are equal and to which every record of     *)
(* msgs is equal to one; deduplicating the output again changes nothing;   *)
(* and downstream there is at most one finding per distinct raw record.    *)
(* (deduplicated_msgs holds the deduplicated raw records while pc is       *)
(* "normalize", and the normalizer's findings from "filter" on.)           *)
C4_DedupKeepsFirstOccurrences ==
    /\ pc = "normalize" =>
           LET d == deduplicated_msgs
               first == FirstOccurrences(msgs)
           IN  /\ IsSubseq(d, msgs)
               /\ \A i, j \in 1..Len(d) : i # j => d[i] # d[j]
               /\ \A i \in 1..Len(msgs) : \E k \in 1..Len(d) : d[k] = msgs[i]
               /\ Len(d) = Cardinality(first)
               /\ \A i \in first : d[Cardinality({j \in first : j <= i})] = msgs[i]
               /\ dedup_loop(<<>>, d) = d
    /\ pc = "filter" =>
           Len(deduplicated_msgs) <= Cardinality({msgs[i] : i \in 1..Len(msgs)})

\* A record, another one, then the first again: two records are kept.
C4_Witness ==
    /\ pc = "normalize"
    /\ Len(msgs) = 3
    /\ msgs[1] = msgs[3]
    /\ msgs[1] # msgs[2]
    /\ deduplicated_msgs = <<msgs[1], msgs[2]>>

---------------------------------------------------------------------------
\* filtered_msgs has been computed.
ReportReady == pc \in {"write", "return"} \/ (pc = "exit" /\ report # <<>>)

\* Adjacent findings are in (file, line) order.
Ascending(findings) ==
    \A k \in 1..(Len(findings) - 1) : FileLineLeq(findings[k], findings[k + 1])

(* C5.  As claimed: the findings handed to the report are ascending by     *)
(* (file path, line number), whatever the order of the raw findings.       *)
(* main never sorts, so a raw input out of order gives a report out of     *)
(* order.                                                                  *)
C5_FinalSequenceSorted ==
    (/\ ReportReady
     /\ args.filter \in {"prospector", "gitlab-sast"}) => Ascending(filtered_msgs)

\* The findings of the well-formed records of xs, in their order.
RECURSIVE FindingsOf(_, _, _)
FindingsOf(files, a, xs) ==
    IF xs = <<>> THEN <<>>
    ELSE IF WellFormed(a.filter, xs[1])
    THEN <<NormalizeItem(files, a, xs[1]).ret>> \o FindingsOf(files, a, Tail(xs))
    ELSE FindingsOf(files, a, Tail(xs))

(* C5, amended.  The findings handed to the report keep the order of the   *)
(* raw records they come from: filtered_msgs is, in order, a subsequence   *)
(* of the findings of the well-formed raw records of msgs (of msgs itself  *)
(* with --filter none).  Hence it is ascending by (file, line) when the    *)
(* raw records of the input are.                                           *)
C5_FinalSequenceKeepsInputOrder ==
    ReportReady =>
        IF args.filter = "none" THEN IsSubseq(filtered_msgs, msgs)
        ELSE LET all == FindingsOf(fs, args, msgs)
             IN  /\ IsSubseq(filtered_msgs, all)
                 /\ (args.filter \in {"prospector", "gitlab-sast"} /\ Ascending(all))
                        => Ascending(filtered_msgs)

\* Two findings of one file reach the report with the later line first.
C5_Witness ==
    /\ pc = "return"
    /\ args.filter = "prospector"
    /\ Len(filtered_msgs) = 2
    /\ filtered_msgs[1].file = filtered_msgs[2].file
    /\ filtered_msgs[1].line > filtered_msgs[2].line

---------------------------------------------------------------------------
(* readSnippet's result, read back.                                        *)

\* The entry readSnippet returns for line n of a file: f"{n} {text}".
Numbered(lines, n) == IntStr(n) \o <<" ">> \o lines[n]

\* The entries are lines first, first+1, ... of the file, each under its
\* own 1-based number.
NumbersLinesFrom(entries, lines, first) ==
    /\ first >= 1
    /\ first + Len(entries) - 1 <= Len(lines)
    /\ \A k \in 1..Len(entries) : entries[k] = Numbered(lines, first + k - 1)

SnippetOf(path) == fs[path].lines

\* The extension of a path names a script file.
IsScript(path) == Suffix(path) = DotJs

---------------------------------------------------------------------------
(* C6.  As claimed: for a readable file and target line L, readSnippet     *)
(* returns at most 11 consecutive lines; the first is line L-4 when L > 5  *)
(* and the target line L itself when L <= 5; the start is never before     *)
(* line 1; and line L is among the returned lines whenever the file has a  *)
(* line L.  (Stated of the numbered lines, i.e. when the minified-file     *)
(* placeholder is not returned.)  Fails for L <= 5: lines[line:line+11]    *)
(* starts at the line after the target, which is then left out.            *)
C6_SnippetWindow ==
    (/\ Returned("readSnippet")
     /\ CanRead(fs, x.path)
     /\ ~ IsExc(out.val)
     /\ out.val # Ret(<<MinimizedJs>>)) =>
        LET entries == out.val.ret
            lines == SnippetOf(x.path)
            first == IF x.line > 5 THEN x.line - 4 ELSE x.line
        IN  /\ Len(entries) <= 11
            /\ first >= 1
            /\ entries # <<>> => NumbersLinesFrom(entries, lines, first)
            /\ x.line <= Len(lines) =>
                   \E k \in 1..Len(entries) : entries[k] = Numbered(lines, x.line)

---------------------------------------------------------------------------
(* C7.  As claimed: for a readable file and L >= 1, every entry            *)
(* readSnippet returns carries the text of one file line under that        *)
(* line's absolute 1-based number, the numbers consecutive and increasing  *)
(* from a first one >= 1.  Fails on the one entry "minimized js...",       *)
(* which carries no line number and no file text.                          *)
C7_EveryEntryNumbered ==
    (/\ Returned("readSnippet")
     /\ CanRead(fs, x.path)
     /\ ~ IsExc(out.val)) =>
        \E first \in 1..(Len(SnippetOf(x.path)) + 1) :
            NumbersLinesFrom(out.val.ret, SnippetOf(x.path), first)

(* C7, amended.  For a readable file and L >= 1, every entry readSnippet   *)
(* returns, other than the single placeholder entry returned for a         *)
(* minified .js window, carries the text of one file line under that       *)
(* line's absolute 1-based number, the numbers consecutive and increasing  *)
(* from a first one >= 1.                                                  *)
C7_NumberedEntriesAreAbsolute ==
    (/\ Returned("readSnippet")
     /\ CanRead(fs, x.path)
     /\ ~ IsExc(out.val)
     /\ out.val # Ret(<<MinimizedJs>>)) =>
        \E first \in 1..(Len(SnippetOf(x.path)) + 1) :
            NumbersLinesFrom(out.val.ret, SnippetOf(x.path), first)

\* A full window of 11 numbered lines, taken past the start of the file.
C7_Witness ==
    /\ Returned("readSnippet")
    /\ CanRead(fs, x.path)
    /\ x.line > 5
    /\ out.val # Ret(<<MinimizedJs>>)
    /\ Len(out.val.ret) = 11
    /\ out.val.ret[1] = Numbered(SnippetOf(x.path), x.line - 4)

---------------------------------------------------------------------------
(* C8.  A pattern-scanner record whose source file cannot be opened or     *)
(* read does not stop normalize_semgrep: no exception of open() or of      *)
(* reading leaves main; once the loop has consumed such a record (one      *)
(* with every field the variant requires), result holds its finding with   *)
(* an empty snippet body; and the loop goes on to the records after it,    *)
(* so that an exception leaving the normalizer was raised by a record      *)
(* lacking a field, not by the unreadable file.                            *)
C8_UnreadableFileGivesEmptySnippet ==
    /\ IsExc(ret_code) => ret_code.exc = "KeyError"
    /\ (args.filter = "semgrep" /\ pc = "normalize") =>
           \A i \in 1..idx :
               LET item == deduplicated_msgs[i]
               IN  (HasSemgrepFields(item) /\ ~ CanRead(fs, item.path)) =>
                       \E k \in 1..Len(result) :
                           /\ Ret(result[k]) = NormalizeItem(fs, args, item)
                           /\ SnippetBody(result[k].snippet) = <<>>
    /\ (args.filter = "semgrep" /\ IsExc(ret_code) /\ ret_code.in = "normalize") =>
           ~ HasSemgrepFields(deduplicated_msgs[idx + 1])

\* The record on the missing file comes first, a record on a readable
\* file after it: both findings are in the result, the first with an
\* empty snippet body, the second with lines of its file.
C8_Witness ==
    /\ args.filter = "semgrep"
    /\ pc = "filter"
    /\ Len(msgs) = 2
    /\ HasSemgrepFields(msgs[1]) /\ ~ CanRead(fs, msgs[1].path)
    /\ HasSemgrepFields(msgs[2]) /\ CanRead(fs, msgs[2].path)
    /\ Len(deduplicated_msgs) = 2
    /\ SnippetBody(deduplicated_msgs[1].snippet) = <<>>
    /\ SnippetBody(deduplicated_msgs[2].snippet) # <<>>

---------------------------------------------------------------------------
(* C9.  For a readable file with a .js extension, if some line of the      *)
(* extracted window is longer than 200 characters (as readlines() returns  *)
(* it, newline included), readSnippet returns exactly one placeholder      *)
(* entry; if no line of the window is, or the extension is not .js, it     *)
(* returns the window's lines, numbered and otherwise unchanged.           *)
C9_MinifiedHeuristic ==
    (Returned("readSnippet") /\ CanRead(fs, x.path)) =>
        LET window == Window(SnippetOf(x.path), x.line)
            long == \E k \in 1..Len(window) : Len(window[k]) > 200
            entries == out.val.ret
        IN  /\ ~ IsExc(out.val)
            /\ IF IsScript(x.path) /\ long
               THEN entries = <<MinimizedJs>>
               ELSE /\ Len(entries) = Len(window)
                    /\ \A k \in 1..Len(window) :
                           \E n \in 1..Len(SnippetOf(x.path)) :
                               entries[k] = IntStr(n) \o <<" ">> \o window[k]

\* A .js window of several lines, one of them of 201 characters.
C9_Witness ==
    /\ Returned("readSnippet")
    /\ CanRead(fs, x.path)
    /\ IsScript(x.path)
    /\ Len(Window(SnippetOf(x.path), x.line)) > 1
    /\ \E k \in 1..Len(Window(SnippetOf(x.path), x.line)) :
           Len(Window(SnippetOf(x.path), x.line)[k]) = 201
    /\ out.val = Ret(<<MinimizedJs>>)

---------------------------------------------------------------------------
\* The configuration file is unparsable, or named by -c and unopenable.
ConfigFailure ==
    \/ config_file.status = "YAMLError"
    \/ config_file.status = "IOError" /\ args.config # PRH_CONFIG_FILE

\* main returned before reading any record.
ReturnedEarly == pc = "exit" /\ ~ IsExc(ret_code) /\ report = <<>>

\* What main returns (without --zero-exit) when findings remain / none do.
FindingsRemainStatus == RetCode([zero_exit |-> FALSE], <<Finding(<<"a">>)>>)

NoFindingsStatus == RetCode([zero_exit |-> FALSE], <<>>)

(* C10.  As claimed: the exit status tells apart "findings remain",        *)
(* "no findings remain" and "could not run": the status main returns when  *)
(* it refuses to run for want of a commit reference differs from the one   *)
(* it returns for a completed run with findings left, and a configuration  *)
(* failure has a status of its own.  Fails: the refusal returns 1, the     *)
(* status of a completed run with findings left.                           *)
C10_ExitStatusTellsOutcomesApart ==
    /\ FindingsRemainStatus # NoFindingsStatus
    /\ (ReturnedEarly /\ ~ ConfigFailure) =>
           ret_code.ret \notin {FindingsRemainStatus, NoFindingsStatus}
    /\ (ReturnedEarly /\ ConfigFailure) =>
           ret_code.ret \notin {FindingsRemainStatus, NoFindingsStatus}

---------------------------------------------------------------------------
\* The fields of the canonical record the report is rendered from.
CanonicalFields ==
    {"tool", "code", "severity", "confidence", "function", "file", "line",
     "position", "message", "snippet"}

(* C11.  As claimed: every finding a normalizer has appended to result     *)
(* (it appends one only for a record with all the fields it requires)      *)
(* carries every field of the canonical record, the data its input has no  *)
(* counterpart for being "unknown" (severity and confidence of the         *)
(* aggregator, function of the generic SAST report) or 0 (position of the  *)
(* generic SAST report).  Fails: normalize_prospector and                  *)
(* normalize_gitlab_sast build no 'snippet', normalize_semgrep builds no   *)
(* 'tool', 'function', 'line' or 'position'.                               *)
C11_EveryCanonicalFieldDefined ==
    (args.filter # "none") =>
        \A k \in 1..Len(result) :
            /\ CanonicalFields \subseteq DOMAIN result[k]
            /\ (args.filter = "prospector") =>
                   /\ result[k].severity = Unknown
                   /\ result[k].confidence = Unknown
            /\ (args.filter = "gitlab-sast") =>
                   /\ result[k].function = Unknown
                   /\ result[k].position = 0

---------------------------------------------------------------------------
\* The identifier values, each but the last followed by a comma and a
\* space.
RECURSIVE CommaSeparated(_)
CommaSeparated(values) ==
    IF values = <<>> THEN <<>>
    ELSE IF Len(values) = 1 THEN values[1]
    ELSE values[1] \o <<",", " ">> \o CommaSeparated(Tail(values))

\* The finding an aggregator message stands for.
ReferenceAggregator(raw) ==
    [tool |-> raw.source,
     code |-> raw.code,
     severity |-> <<"unknown">>,
     confidence |-> <<"unknown">>,
     function |-> raw.location.function,
     file |-> raw.location.path,
     line |-> raw.location.line,
     position |-> raw.location.character,
     message |-> raw.message]

\* The finding a vulnerability of the generic SAST report stands for.
ReferenceSast(raw) ==
    [tool |-> raw.scanner.id,
     code |-> CommaSeparated([i \in 1..Len(raw.identifiers) |->
                                  raw.identifiers[i].value]),
     severity |-> raw.severity,
     confidence |-> raw.confidence,
     function |-> <<"unknown">>,
     file |-> raw.location.file,
     line |-> raw.location.start_line,
     position |-> 0,
     message |-> raw.message]

Reference(kind, raw) ==
    IF kind = "prospector" THEN ReferenceAggregator(raw) ELSE ReferenceSast(raw)

(* C12.  While normalize_prospector or normalize_gitlab_sast loops over    *)
(* the batch, and when it is done, result holds one finding per            *)
(* well-formed record among those visited, in the order of the batch,      *)
(* each equal to the reference mapping of its record; and no exception     *)
(* leaves either normalizer.                                               *)
C12_ReferenceMapping ==
    (args.filter \in {"prospector", "gitlab-sast"}) =>
        /\ (pc = "normalize") =>
               LET raw == WellFormedOf(args.filter,
                                       SubSeq(deduplicated_msgs, 1, idx))
               IN  /\ Len(result) = Len(raw)
                   /\ \A k \in 1..Len(raw) :
                          result[k] = Reference(args.filter, raw[k])
        /\ IsExc(ret_code) => ret_code.in # "normalize"

\* A generic SAST batch of a record with two identifiers, a defective
\* record and a record with one identifier has been normalized: two
\* findings, in that order, the first with both values in its code.
C12_Witness ==
    /\ args.filter = "gitlab-sast"
    /\ pc = "normalize"
    /\ idx = 3
    /\ Len(deduplicated_msgs) = 3
    /\ HasGitlabFields(deduplicated_msgs[1])
    /\ Len(deduplicated_msgs[1].identifiers) = 2
    /\ ~ HasGitlabFields(deduplicated_msgs[2])
    /\ HasGitlabFields(deduplicated_msgs[3])
    /\ Len(result) = 2
    /\ result[1].code = <<"B", "1", ",", " ", "7", "8">>
    /\ result[2].tool = <<"semgrep">>

---------------------------------------------------------------------------
\* main went through normalization, filtering and the writing of the
\* report, and has returned.
Completed == pc = "exit" /\ report # <<>>

(* C13.  A run that completed returns a status and raises nothing; with    *)
(* --zero-exit the status is 0 whatever the report holds; without it the   *)
(* status is non-zero exactly when the report holds at least one finding.  *)
C13_ZeroExitOverride ==
    Completed =>
        /\ ~ IsExc(ret_code)
        /\ args.zero_exit => ret_code.ret = 0
        /\ (~ args.zero_exit) => (ret_code.ret # 0 <=> report[1].data # <<>>)

\* A completed run with --zero-exit whose report holds findings.
C13_Witness ==
    /\ Completed
    /\ args.zero_exit
    /\ report[1].data # <<>>
    /\ ret_code = Ret(0)

---------------------------------------------------------------------------
\* File name endings of HTML documents.
HtmlFamily == {<<".", "h", "t", "m", "l">>, <<".", "h", "t", "m">>}

IsHtmlFile(path) == \E e \in HtmlFamily : EndsWith(path, e)

\* The characters a renderer of HTML reads as markup.
MarkupChars == {"<", ">", "&"}

(* C14.  As claimed: once normalize_semgrep has consumed a well-formed     *)
(* record on a file with an HTML-family extension, result holds its        *)
(* finding, and no character between <code ...> and </code> of the         *)
(* finding's snippet is a bare '<', '>' or '&'.  Fails: the code escapes   *)
(* the snippet of a file named *.html and of no other, so the lines of     *)
(* app.htm are embedded as they are.                                       *)
C14_HtmlSnippetEscaped ==
    (args.filter = "semgrep" /\ pc = "normalize") =>
        \A i \in 1..idx :
            LET item == deduplicated_msgs[i]
            IN  (HasSemgrepFields(item) /\ IsHtmlFile(item.path)) =>
                    \E k \in 1..Len(result) :
                        /\ Ret(result[k]) = NormalizeItem(fs, args, item)
                        /\ \A j \in 1..Len(SnippetBody(result[k].snippet)) :
                               SnippetBody(result[k].snippet)[j] \notin MarkupChars

---------------------------------------------------------------------------
\* The run was given a repository URL (it has one by default) and no
\* commit reference.
MissingSha ==
    args.repository_url # <<>> /\ (args.sha.none \/ args.sha.s = <<>>)

\* No record has been deduplicated, normalized or filtered, and no report
\* file has been written.
NothingProcessed ==
    /\ deduplicated_msgs = <<>>
    /\ result = <<>>
    /\ idx = 0
    /\ filtered_msgs = <<>>
    /\ report = <<>>

(* C15.  A run whose configuration file is unparsable, or explicitly named *)
(* and unopenable, goes from loading the configuration straight to its     *)
(* return; a run without the required commit reference goes no further     *)
(* than the check for it; either returns a status, and at no point of      *)
(* such a run has a record been deduplicated, normalized or filtered or    *)
(* the report file been written.                                           *)
C15_FailuresEndBeforeProcessing ==
    /\ ConfigFailure =>
           /\ pc \in {"load_config", "exit"}
           /\ NothingProcessed
           /\ pc = "exit" => ret_code = Ret(3)
    /\ MissingSha =>
           /\ pc \in {"load_config", "read_input", "check_sha", "exit"}
           /\ NothingProcessed
           /\ pc = "exit" => ~ IsExc(ret_code)

\* A run on an input with records whose configuration file, named with
\* -c, could not be opened has returned.
C15_Witness ==
    /\ pc = "exit"
    /\ args.config # PRH_CONFIG_FILE
    /\ config_file.status = "IOError"
    /\ InputSection(input_file, args.filter) # <<>>
    /\ ret_code = Ret(3)
    /\ report = <<>>

(* C16.  Whatever the input kind, a run whose configuration was loaded     *)
(* and that has the default repository URL (or any non-empty one) and no   *)
(* commit reference never gets past the check for the reference, and       *)
(* returns 1 with no record deduplicated, normalized or filtered and no    *)
(* report written.                                                         *)
C16_ShaRefusalForEveryKind ==
    \A kind \in Kinds :
        (args.filter = kind /\ MissingSha /\ ~ ConfigFailure) =>
            /\ pc \notin {"dedup", "normalize", "filter", "write", "return"}
            /\ pc = "exit" => (ret_code = Ret(1) /\ NothingProcessed)

\* A run of a kind that builds no links, on an input with records, has
\* been refused for want of a commit reference.
C16_Witness ==
    /\ args.filter = "prospector"
    /\ args.repository_url = DefaultUrl
    /\ args.sha = NoSha
    /\ pc = "exit"
    /\ msgs # <<>>
    /\ ret_code = Ret(1)

====
